---- MODULE Spec2Model ----
(***************************************************************************)
(* A model of the Duo two-factor client of AcornSnipe: the HTML token      *)
(* extractors (duo/parser.py), the provider and assertion transports       *)
(* (duo/duo_auth.py, duo/saml.py) and the DuoClient state machine          *)
(* (duo/client.py).  Time is counted in ticks, TicksPerSecond to a second. *)
(***************************************************************************)
EXTENDS Integers, Sequences, FiniteSets, TLC

\* ------------------------------------------------------------------ bounds
TicksPerSecond == 2   \* resolution of the clock
MaxTimeout == 3       \* largest `timeout` argument of _poll_duo_status, seconds
MaxOverrun == 1       \* seconds the clock is followed before the start and past the deadline
MaxElems == 3         \* elements of an HTML document handed to an extractor
MaxCalls == 2         \* calls of authenticate on one client
MaxPolls == 3         \* status requests of one poll loop

\* `timeout: int = 60`, the timeout _duo_auth polls with
DefaultTimeout == 60

\* ------------------------------------------------------------ HTML documents
\* A parsed document is the sequence of its elements in document order; an
\* attribute an element does not carry is NoAttr.
NoAttr == "<no attribute>"

Input(n, v) ==
    [tag |-> "input", name |-> n, method |-> NoAttr, value |-> v, action |-> NoAttr]

Form(m, a) ==
    [tag |-> "form", name |-> NoAttr, method |-> m, value |-> NoAttr, action |-> a]

FieldNames == {"csrf_token", "tx", "_xsrf", "akey", "SAMLResponse"}

Elements ==
    {Input(n, v) : n \in FieldNames, v \in {NoAttr, "v1"}}
    \cup {Input("SAMLResponse", "")}
    \cup {Form(m, a) : m \in {"post", "get"}, a \in {NoAttr, "/login"}}

SeqsUpTo(S, n) == UNION {[1..k -> S] : k \in 0..n}

\* results of an extractor: a value, None, or an exception raised
None == [kind |-> "None"]
Raised(e) == [kind |-> "raise", exc |-> e]
Value(v) == [kind |-> "value", val |-> v]

\* soup.find(tag, {attr: val}): the first element of the document with that
\* tag and that attribute value, or None
Find(html, tag, attr, val) ==
    LET hits == {i \in 1..Len(html) : html[i].tag = tag /\ html[i][attr] = val}
    IN  IF hits = {} THEN None
        ELSE Value(html[CHOOSE i \in hits : \A j \in hits : i <= j])

\* elem['value'], elem['action']: KeyError when the attribute is absent
Attr(elem, attr) ==
    IF elem.val[attr] = NoAttr THEN Raised("KeyError") ELSE Value(elem.val[attr])

IsRaise(r) == r.kind = "raise"

\* a dict literal {k1: e1, k2: e2, ...}: the first expression that raises
\* decides; otherwise the dict of the values
DictOf(keys, items) ==
    LET bad == {i \in 1..Len(items) : IsRaise(items[i])}
    IN  IF bad # {} THEN items[CHOOSE i \in bad : \A j \in bad : i <= j]
        ELSE Value([k \in {keys[i] : i \in 1..Len(keys)} |->
                      items[CHOOSE i \in 1..Len(keys) : keys[i] = k].val])

extract_csrf_and_action(html) ==
    LET csrf_elem == Find(html, "input", "name", "csrf_token")
        form_elem == Find(html, "form", "method", "post")
    IN  IF csrf_elem = None \/ form_elem = None THEN None
        ELSE DictOf(<<"csrf_token", "action">>,
                    <<Attr(csrf_elem, "value"), Attr(form_elem, "action")>>)

extract_duo_tokens(html) ==
    LET tx_elem == Find(html, "input", "name", "tx")
        xsrf_elem == Find(html, "input", "name", "_xsrf")
        akey_elem == Find(html, "input", "name", "akey")
    IN  IF tx_elem = None \/ xsrf_elem = None \/ akey_elem = None THEN None
        ELSE DictOf(<<"tx", "_xsrf", "akey">>,
                    <<Attr(tx_elem, "value"), Attr(xsrf_elem, "value"),
                      Attr(akey_elem, "value")>>)

extract_saml_response(html) ==
    LET saml_elem == Find(html, "input", "name", "SAMLResponse")
    IN  IF saml_elem = None THEN None ELSE Attr(saml_elem, "value")

\* --------------------------------------------------------------------- URLs
\* A URL is a sequence of tokens; the tokens that contain a '/' and the
\* token "&" are what the two patterns of _initial_login tell apart.
SlashTokens == {"https://", "/", "/frame", "/idp"}

MinOf(S) == CHOOSE i \in S : \A j \in S : i <= j
MaxOf(S) == CHOOSE i \in S : \A j \in S : i >= j

\* the group running to the end of the URL, past every "&"
SidSearchToEnd(u) ==
    LET starts == {i \in 1..(Len(u) - 1) : u[i] = "sid=" /\ u[i + 1] # "&"}
    IN  IF starts = {} THEN None
        ELSE Value(SubSeq(u, MinOf(starts) + 1, Len(u)))

\* re.search('sid=([^&]+)', url): the leftmost "sid=" followed by at least
\* one token other than "&"; the group is the longest run of such tokens
SidSearch(u) ==
    LET starts == {i \in 1..(Len(u) - 1) : u[i] = "sid=" /\ u[i + 1] # "&"}
    IN  IF starts = {} THEN None
        ELSE LET i == MinOf(starts)
                 ends == {j \in (i + 1)..Len(u) : \A k \in (i + 1)..j : u[k] # "&"}
             IN  Value(SubSeq(u, i + 1, MaxOf(ends)))

\* re.search(r'https://([^/]+\.duosecurity\.com)', url): the leftmost
\* "https://" followed by a run of tokens without '/' that holds
\* ".duosecurity.com" after at least one token; the run is taken greedily,
\* so the group ends at the last ".duosecurity.com" of the run
HostSearch(u) ==
    LET Ends(i) == {k \in (i + 2)..Len(u) :
                      /\ u[k] = ".duosecurity.com"
                      /\ \A m \in (i + 1)..k : u[m] \notin SlashTokens}
        starts == {i \in 1..Len(u) : u[i] = "https://" /\ Ends(i) # {}}
    IN  IF starts = {} THEN None
        ELSE LET i == MinOf(starts)
             IN  Value(SubSeq(u, i + 1, MaxOf(Ends(i))))

FallbackHost == <<"api-832cdf07", ".duosecurity.com">>
BaseUrl == <<"https://", "idpz.utorauth.utoronto.ca">>

\* ------------------------------------------------- what the endpoints answer
\* The pages an endpoint serves: the complete page, and every page got from
\* it by leaving elements out or by leaving out the attribute that is read.
Without(e) == IF e.tag = "form" THEN Form(e.method, NoAttr) ELSE Input(e.name, NoAttr)

RECURSIVE Incomplete(_)
Incomplete(page) ==
    IF page = <<>> THEN {<<>>}
    ELSE LET rest == Incomplete(Tail(page))
         IN  rest \cup {<<Head(page)>> \o r : r \in rest}
                  \cup {<<Without(Head(page))>> \o r : r \in rest}

LoginDocs == Incomplete(<<Form("post", "/login"), Input("csrf_token", "v1")>>)

\* The identity provider and Duo issue the frame tokens and the txid anew
\* for every login: the values served to the n-th attempt of a client.
TokenValues == <<"v1", "v2", "v3", "v4">>
TxidValues == <<"txid1", "txid2", "txid3", "txid4">>
Fresh(values, n) == values[IF n > Len(values) THEN Len(values) ELSE n]

FrameDocsOf(n) ==
    Incomplete(<<Input("tx", Fresh(TokenValues, n)), Input("_xsrf", Fresh(TokenValues, n)),
                 Input("akey", Fresh(TokenValues, n))>>)
FrameDocs == FrameDocsOf(1)
ExitDocs ==
    Incomplete(<<Input("SAMLResponse", "v1")>>)
    \cup {<<Input("SAMLResponse", "")>>, <<Input("SAMLResponse", "SAML123==")>>}

ResponseUrls ==
    { <<"https://", "api-1", ".duosecurity.com", "/frame", "?", "sid=", "A", "&", "v=4">>,
      <<"https://", "idpz.utorauth.utoronto.ca", "/idp", "?", "sid=", "B">>,
      <<"https://", "idpz.utorauth.utoronto.ca", "/idp">> }

\* a response body read by response.json(): not JSON at all, or an object
\* whose keys may be missing (NoKey)
NoKey == "<no key>"
Json(st, t, c) == [json |-> TRUE, stat |-> st, txid |-> t, status_code |-> c]
NotJson == [json |-> FALSE, stat |-> NoKey, txid |-> NoKey, status_code |-> NoKey]

PromptBodiesOf(n) ==
    {NotJson, Json("OK", Fresh(TxidValues, n), NoKey), Json("OK", NoKey, NoKey),
     Json("FAIL", NoKey, NoKey), Json(NoKey, NoKey, NoKey)}
PromptBodies == PromptBodiesOf(1)
StatusBodies ==
    {NotJson, Json("FAIL", NoKey, NoKey), Json("OK", NoKey, NoKey)}
    \cup {Json("OK", NoKey, c) : c \in {"allow", "deny", "pushed", "locked_out"}}

StatusCodes == {200, 500}

\* the service targets a caller may configure
ServiceTargets ==
    { [url |-> <<"https://acorn.utoronto.ca/">>, saml_url |-> <<"spACS">>],
      [url |-> <<"https://bypass.utormfa.utoronto.ca/">>,
       saml_url |-> <<"Shibboleth.sso/SAML2/POST">>] }

AuthMethods == {"Duo Push", "Passcode"}
Passcodes == {None, Value(""), Value("123456")}
Devices == {"phone1", "phone2"}

\* ------------------------------------------------------------------- state
VARIABLES
    username, password, url, saml_url, session,   \* DuoClient.__init__
    duo_host, sid, tx, txid, xsrf, akey,          \* the AuthTransaction fields
    pc,                                           \* where the running call stands
    auth_method, passcode, device,                \* arguments of authenticate
    timeout, start_time, last_poll,               \* _poll_duo_status
    csrf_token, relative_url, response_url, saml_response,  \* locals
    now,                                          \* the latest reading of time.time()
    calls, sent, nStatus, got, answers,           \* what the call has done so far
    result, msg, raised,                          \* how the call ended
    returned,                                     \* the operation called last and what it gave back
    passed,                                       \* the steps of the call that succeeded
    html, extracted,                              \* an extractor applied on its own
    block, closed, escaped,                       \* the with-block around the client
    derived                                       \* what the attempt read off its responses

clientVars == <<username, password, url, saml_url, session>>
txnVars == <<duo_host, sid, tx, txid, xsrf, akey>>
argVars == <<auth_method, passcode, device, timeout>>
pollVars == <<start_time, last_poll>>
localVars == <<csrf_token, relative_url, response_url, saml_response>>
logVars == <<sent, nStatus, got, answers>>
endVars == <<result, msg, raised>>
parserVars == <<html, extracted>>
ghostVars == <<passed>>
scopeVars == <<block, closed, escaped>>
vars == <<clientVars, txnVars, pc, argVars, pollVars, localVars, now, calls,
          logVars, endVars, returned, ghostVars, parserVars, scopeVars, derived>>

RequestKinds == {"entry", "cred", "frame", "prompt", "status", "exit", "acs"}
NoReq == [kind |-> "none"]
NoResp == [status |-> 0]
Request(k, u, d) == [kind |-> k, url |-> u, data |-> d, session |-> session]

NoReturn == [op |-> "none"]
NoExtract == [fn |-> "none", out |-> None]

TxnFields == {"sid", "duo_host", "tx", "xsrf", "akey", "txid"}
NoneDerived == [f \in TxnFields |-> <<>>]

ClientInit ==
    /\ username = "user" /\ password = "secret"
    /\ url = <<"https://acorn.utoronto.ca/">>
    /\ saml_url = <<"spACS">>
    /\ session = "session0"
    /\ duo_host = None /\ sid = None /\ tx = None
    /\ txid = None /\ xsrf = None /\ akey = None

IdleInit ==
    /\ pc = "idle"
    /\ auth_method = "Duo Push" /\ passcode = None /\ device = "phone1"
    /\ timeout = 0 /\ start_time = 0 /\ last_poll = 0
    /\ csrf_token = None /\ relative_url = None
    /\ response_url = None /\ saml_response = None
    /\ now = 0 /\ calls = 0
    /\ sent = [k \in RequestKinds |-> NoReq]
    /\ got = [k \in RequestKinds |-> NoResp]
    /\ nStatus = 0 /\ answers = <<>>
    /\ result = "none" /\ msg = "" /\ raised = FALSE
    /\ returned = NoReturn
    /\ passed = {}
    /\ block = "before" /\ closed = FALSE /\ escaped = None
    /\ derived = NoneDerived

Init == ClientInit /\ IdleInit /\ html = <<>> /\ extracted = NoExtract

\* ------------------------------------------------------ DuoClient.authenticate
\* authenticate without its try/except: the exception reaches the caller
OnExceptionPropagates(e) == [result |-> "raise", msg |-> e]

\* the except clause of authenticate: every Exception becomes the result False
OnException(e) == [result |-> "False", msg |-> "Authentication failed"]

\* a return of authenticate: the locals of the call are gone
Return(r, m, exc) ==
    /\ pc' = "idle"
    /\ result' = r /\ msg' = m /\ raised' = exc
    /\ csrf_token' = None /\ relative_url' = None
    /\ response_url' = None /\ saml_response' = None

Catch(e) == Return(OnException(e).result, OnException(e).msg, TRUE)

Goto(label) == pc' = label /\ UNCHANGED endVars

Send(k, u, d) == sent' = [sent EXCEPT ![k] = Request(k, u, d)]
Recv(k, r) == got' = [got EXCEPT ![k] = r]

Truthy(v) == v # None /\ v # Value("")

\* an attribute written only while it is unset: a later attempt keeps the
\* value of an earlier one
AssignIfUnset(old, new) == IF old = None THEN new ELSE old

\* self.sid = ..., self.tx = ...: an attribute takes the value assigned
Assign(old, new) == new

Derive(f, v) == derived' = [derived EXCEPT ![f] = Append(@, v)]

\* the call of authenticate; _duo_auth polls with the default timeout
AuthCall(m, p, d) ==
    /\ pc = "idle"
    /\ calls' = calls + 1
    /\ auth_method' = m /\ passcode' = p /\ device' = d
    /\ timeout' = DefaultTimeout
    /\ pc' = "login_get"
    /\ result' = "none" /\ msg' = "" /\ raised' = FALSE
    /\ sent' = [k \in RequestKinds |-> NoReq]
    /\ got' = [k \in RequestKinds |-> NoResp]
    /\ nStatus' = 0 /\ answers' = <<>>
    /\ returned' = NoReturn
    /\ passed' = {}
    /\ derived' = NoneDerived
    /\ now' = 0 /\ start_time' = 0 /\ last_poll' = 0
    /\ escaped' = None
    /\ UNCHANGED <<clientVars, txnVars, localVars, parserVars, block, closed>>

\* _initial_login, the GET of the entry URL and the login form
LoginGet ==
    /\ pc = "login_get"
    /\ Send("entry", url, None)
    /\ \/ /\ Catch("ConnectionError")
          /\ UNCHANGED got
       \/ \E st \in StatusCodes, doc \in LoginDocs :
            LET tokens == extract_csrf_and_action(doc)
            IN  /\ Recv("entry", [status |-> st])
                /\ IF st # 200
                   THEN Return("False", "Failed to access initial URL", FALSE)
                   ELSE IF IsRaise(tokens) THEN Catch(tokens.exc)
                   ELSE IF tokens = None
                   THEN Return("False", "Failed to find required form elements", FALSE)
                   ELSE /\ Goto("login_post")
                        /\ csrf_token' = Value(tokens.val.csrf_token)
                        /\ relative_url' = Value(tokens.val.action)
                        /\ UNCHANGED <<response_url, saml_response>>
    /\ UNCHANGED <<clientVars, txnVars, argVars, pollVars, now, calls, nStatus,
                   answers, returned, ghostVars, parserVars, scopeVars, derived>>

CredPayload ==
    [csrf_token |-> csrf_token.val, j_username |-> username,
     j_password |-> password, _eventId_proceed |-> ""]

\* _initial_login, the credential POST and what is read off its response
LoginPost ==
    /\ pc = "login_post"
    /\ Send("cred", BaseUrl \o <<relative_url.val>>, CredPayload)
    /\ \/ /\ Catch("ConnectionError")
          /\ UNCHANGED <<got, txnVars, derived>>
       \/ \E st \in StatusCodes, u \in ResponseUrls, doc \in FrameDocsOf(calls) :
            LET sid_match == SidSearch(u)
                duo_host_match == HostSearch(u)
                host == IF duo_host_match # None THEN duo_host_match
                        ELSE Value(FallbackHost)
                duo_tokens == extract_duo_tokens(doc)
                stored == ~IsRaise(duo_tokens) /\ duo_tokens # None
                read == [derived EXCEPT !["sid"] = Append(@, sid_match),
                                        !["duo_host"] = Append(@, host)]
            IN  /\ Recv("cred", [status |-> st, url |-> u])
                /\ IF sid_match = None
                   THEN /\ Return("False", "Failed to extract session ID", FALSE)
                        /\ UNCHANGED <<txnVars, derived>>
                   ELSE /\ sid' = Assign(sid, sid_match)
                        /\ duo_host' = Assign(duo_host, host)
                        /\ UNCHANGED txid
                        /\ derived' =
                              IF stored
                              THEN [read EXCEPT
                                      !["tx"] = Append(@, Value(duo_tokens.val.tx)),
                                      !["xsrf"] = Append(@, Value(duo_tokens.val._xsrf)),
                                      !["akey"] = Append(@, Value(duo_tokens.val.akey))]
                              ELSE read
                        /\ IF IsRaise(duo_tokens)
                           THEN Catch(duo_tokens.exc) /\ UNCHANGED <<tx, xsrf, akey>>
                           ELSE IF duo_tokens = None
                           THEN /\ Return("False", "Failed to find Duo frame parameters",
                                          FALSE)
                                /\ UNCHANGED <<tx, xsrf, akey>>
                           ELSE /\ tx' = Assign(tx, Value(duo_tokens.val.tx))
                                /\ xsrf' = Assign(xsrf, Value(duo_tokens.val._xsrf))
                                /\ akey' = Assign(akey, Value(duo_tokens.val.akey))
                                /\ Goto("frame_init")
                                /\ response_url' = Value(u)
                                /\ UNCHANGED <<csrf_token, relative_url, saml_response>>
    /\ UNCHANGED <<clientVars, argVars, pollVars, now, calls, nStatus, answers,
                   returned, ghostVars, parserVars, scopeVars>>

FramePayload ==
    [tx |-> tx, parent |-> "None", _xsrf |-> xsrf, version |-> "v4", akey |-> akey,
     has_session_trust_analysis_feature |-> FALSE]

\* _initial_login, the frame-initialization POST; its response is not read
FrameInit ==
    /\ pc = "frame_init"
    /\ Send("frame", response_url.val, FramePayload)
    /\ \/ /\ Catch("ConnectionError")
          /\ UNCHANGED got
       \/ \E st \in StatusCodes :
            /\ Recv("frame", [status |-> st])
            /\ Goto("duo_auth")
            /\ UNCHANGED localVars
    /\ UNCHANGED <<clientVars, txnVars, argVars, pollVars, now, calls, nStatus,
                   answers, returned, parserVars, scopeVars, derived>>
    /\ passed' = IF pc' = "duo_auth" THEN passed \cup {"login"} ELSE passed

\* ----------------------------------------------------------- _duo_auth
\* the check written as `passcode is None`: an empty passcode passes it
PasscodeIsNone(m, p) == m = "Passcode" /\ p = None

\* `auth_method == "Passcode" and not passcode`
PasscodeMissing(m, p) == m = "Passcode" /\ ~Truthy(p)

DuoAuth ==
    /\ pc = "duo_auth"
    /\ IF PasscodeMissing(auth_method, passcode)
       THEN Return("False", "Passcode required for Passcode authentication method", FALSE)
       ELSE Goto("prompt") /\ UNCHANGED localVars
    /\ UNCHANGED <<clientVars, txnVars, argVars, pollVars, now, calls, logVars,
                   returned, ghostVars, parserVars, scopeVars, derived>>

BrowserFeatures ==
    [touch_supported |-> FALSE, platform_authenticator_status |-> "available",
     webauthn_supported |-> TRUE]

\* the payload with the passcode field whatever the method
PromptPayloadWithPasscode(m, p, d, s) ==
    [device |-> IF m = "Duo Push" THEN Value(d) ELSE Value("null"),
     factor |-> m, postAuthDestination |-> "OIDC_EXIT",
     browser_features |-> BrowserFeatures, sid |-> s, passcode |-> p]

PromptPayload(m, p, d, s) ==
    LET base == [device |-> IF m = "Duo Push" THEN Value(d) ELSE Value("null"),
                 factor |-> m, postAuthDestination |-> "OIDC_EXIT",
                 browser_features |-> BrowserFeatures, sid |-> s]
    IN  IF m = "Passcode" THEN base @@ [passcode |-> p] ELSE base

\* duo_auth.py: POST https://{duo_host}/frame/v4/{path}
ProviderUrl(host, path) ==
    <<"https://">> \o (IF host = None THEN <<"None">> ELSE host.val) \o <<path>>

Prompt ==
    /\ pc = "prompt"
    /\ Send("prompt", ProviderUrl(duo_host, "/frame/v4/prompt"),
            PromptPayload(auth_method, passcode, device, sid))
    /\ \/ /\ Catch("ConnectionError")
          /\ UNCHANGED <<got, txid, pollVars, derived>>
       \/ \E st \in StatusCodes, body \in PromptBodiesOf(calls) :
            /\ Recv("prompt", [status |-> st, stat |-> body.stat])
            /\ IF st # 200
               THEN /\ Return("False", "Duo prompt failed", FALSE)
                    /\ UNCHANGED <<txid, pollVars, derived>>
               ELSE IF ~body.json
               THEN Catch("JSONDecodeError") /\ UNCHANGED <<txid, pollVars, derived>>
               ELSE IF body.stat # "OK"
               THEN /\ Return("False", "Duo authentication failed", FALSE)
                    /\ UNCHANGED <<txid, pollVars, derived>>
               ELSE IF body.txid = NoKey
               THEN Catch("KeyError") /\ UNCHANGED <<txid, pollVars, derived>>
               ELSE /\ txid' = Assign(txid, Value(body.txid))
                    /\ Derive("txid", Value(body.txid))
                    /\ start_time' = now /\ last_poll' = now
                    /\ pc' = "poll_while" /\ msg' = "Duo status: OK"
                    /\ UNCHANGED <<result, raised, localVars>>
    /\ UNCHANGED <<clientVars, duo_host, sid, tx, xsrf, akey, argVars, now, calls,
                   nStatus, answers, returned, parserVars, scopeVars>>
    /\ passed' = IF pc' = "poll_while" THEN passed \cup {"prompt"} ELSE passed

\* ----------------------------------------------------- _poll_duo_status
\* the deadline tested with `<=`: the loop body runs once more at the deadline
WithinTimeoutInclusive(t, start, limit) == t - start <= limit * TicksPerSecond

\* the deadline measured from the last poll instead of the start of polling
WithinTimeoutOfLastPoll(t, start, limit) == t - last_poll < limit * TicksPerSecond

\* `time.time() - start_time < timeout`
WithinTimeout(t, start, limit) == t - start < limit * TicksPerSecond

\* no cadence at all: a poll is due at every pass of the loop
PollDueAtOnce(t, last) == TRUE

\* the cadence measured from the start of polling instead of the last poll
PollDueSinceStart(t, last) == t - start_time >= TicksPerSecond

\* `time.time() - last_poll >= 1`
PollDue(t, last) == t - last >= TicksPerSecond

PollPcs == {"poll_while", "poll_if", "poll_send", "poll_wait"}

\* last_poll is a local of _poll_duo_status, gone when the loop is left;
\* start_time is kept, as the time the elapsed time is measured from
Kept(label, v) == IF label \in PollPcs THEN v ELSE 0

\* the readings of time.time() that are followed, as ticks since the loop
\* started: for a timeout up to MaxTimeout every tick from MaxOverrun seconds
\* before the start to MaxOverrun seconds past the largest deadline, for a
\* longer timeout the whole seconds from MaxOverrun before the start to
\* MaxTimeout after it and from the deadline to MaxOverrun past it
Offsets(limit) ==
    IF limit <= MaxTimeout
    THEN (0 - MaxOverrun * TicksPerSecond)..((MaxTimeout + MaxOverrun) * TicksPerSecond)
    ELSE {sec * TicksPerSecond :
             sec \in ((0 - MaxOverrun)..MaxTimeout) \cup (limit..(limit + MaxOverrun))}

Readings == {start_time + d : d \in Offsets(timeout)}

\* the readings belong to the loop: the step that follows the loop, or the
\* operation that follows the call, has no use of them
LoopLeft == now' = 0 /\ start_time' = 0 /\ last_poll' = 0

\* time.time(): a reading is later than the one before by any amount, when
\* the thread was delayed or an answer was awaited, or earlier, when the
\* system clock was set back
Read(t) == now' = t

PollWhile ==
    /\ pc = "poll_while"
    /\ \E t \in Readings :
          /\ Read(t)
          /\ IF WithinTimeout(t, start_time, timeout)
             THEN Goto("poll_if") /\ UNCHANGED localVars
             ELSE Return("False", "Duo authentication timed out", FALSE)
    /\ UNCHANGED <<clientVars, txnVars, argVars, start_time, calls, logVars,
                   returned, passed, parserVars, scopeVars, derived>>
    /\ last_poll' = Kept(pc', last_poll)

PollIf ==
    /\ pc = "poll_if"
    /\ \E t \in Readings :
          /\ Read(t)
          /\ IF PollDue(t, last_poll) THEN Goto("poll_send") ELSE Goto("poll_while")
    /\ UNCHANGED <<clientVars, txnVars, argVars, pollVars, localVars, calls,
                   logVars, returned, passed, parserVars, scopeVars, derived>>

StatusPayload == [txid |-> txid, sid |-> sid]

PollSend ==
    /\ pc = "poll_send"
    /\ nStatus < MaxPolls
    /\ \E t \in Readings : Read(t) /\ last_poll' = t
    /\ Send("status", ProviderUrl(duo_host, "/frame/v4/status"), StatusPayload)
    /\ nStatus' = nStatus + 1
    /\ Goto("poll_wait")
    /\ UNCHANGED <<clientVars, txnVars, argVars, start_time, localVars, calls,
                   got, answers, returned, passed, parserVars, scopeVars, derived>>

\* the answer read off the body alone, the HTTP status left unread
AnswerOfBodyOnly(st, body) ==
    IF ~body.json THEN "not json"
    ELSE IF body.stat # "OK" THEN "stat error"
    ELSE body.status_code

\* what one answer to a status request amounts to
AnswerOf(st, body) ==
    IF st # 200 THEN "http error"
    ELSE IF ~body.json THEN "not json"
    ELSE IF body.stat # "OK" THEN "stat error"
    ELSE body.status_code

\* the chain with the `deny` branch lost: a denial is polled past
OnStatusCodeNoDeny(code) ==
    IF code = "allow" THEN [do |-> "return True", msg |-> "Duo authentication approved!"]
    ELSE IF code = "pushed" THEN [do |-> "continue", msg |-> "Waiting for Duo approval..."]
    ELSE [do |-> "continue", msg |-> "Unknown status"]

\* the chain with `deny` taken for an approval
OnStatusCodeDenyAllows(code) ==
    IF code \in {"allow", "deny"}
    THEN [do |-> "return True", msg |-> "Duo authentication approved!"]
    ELSE IF code = "pushed" THEN [do |-> "continue", msg |-> "Waiting for Duo approval..."]
    ELSE [do |-> "continue", msg |-> "Unknown status"]

\* the chain with an unrecognized code taken for a failure
OnStatusCodeUnknownFatal(code) ==
    IF code = "allow" THEN [do |-> "return True", msg |-> "Duo authentication approved!"]
    ELSE IF code = "deny" THEN [do |-> "return False", msg |-> "Duo authentication denied!"]
    ELSE IF code = "pushed" THEN [do |-> "continue", msg |-> "Waiting for Duo approval..."]
    ELSE [do |-> "return False", msg |-> "Unknown status"]

\* the if/elif chain on status_code: what the loop does with a code
OnStatusCode(code) ==
    IF code = "allow" THEN [do |-> "return True", msg |-> "Duo authentication approved!"]
    ELSE IF code = "deny" THEN [do |-> "return False", msg |-> "Duo authentication denied!"]
    ELSE IF code = "pushed" THEN [do |-> "continue", msg |-> "Waiting for Duo approval..."]
    ELSE [do |-> "continue", msg |-> "Unknown status"]

PollResp ==
    /\ pc = "poll_wait"
    /\ \/ /\ Catch("ConnectionError")
          /\ answers' = Append(answers, "exception")
          /\ UNCHANGED got
       \/ \E st \in StatusCodes, body \in StatusBodies :
            LET a == AnswerOf(st, body)
                todo == OnStatusCode(a)
            IN  /\ Recv("status", [status |-> st, stat |-> body.stat])
                /\ answers' = Append(answers, a)
                /\ IF a = "http error" THEN Return("False", "Status poll failed", FALSE)
                   ELSE IF a = "not json" THEN Catch("JSONDecodeError")
                   ELSE IF a = "stat error" THEN Return("False", "Status poll error", FALSE)
                   ELSE IF a = NoKey THEN Catch("KeyError")
                   ELSE IF todo.do = "return True"
                   THEN /\ pc' = "exit" /\ msg' = todo.msg
                        /\ UNCHANGED <<result, raised, localVars>>
                   ELSE IF todo.do = "return False"
                   THEN Return("False", todo.msg, FALSE)
                   ELSE /\ pc' = "poll_while" /\ msg' = todo.msg
                        /\ UNCHANGED <<result, raised, localVars>>
    /\ UNCHANGED <<clientVars, txnVars, argVars, start_time, now, calls, sent, nStatus,
                   returned, parserVars, scopeVars, derived>>
    /\ last_poll' = Kept(pc', last_poll)
    /\ passed' = IF pc' = "exit" THEN passed \cup {"poll"} ELSE passed

\* ------------------------------------------------------------ _complete_saml
ExitPayload ==
    [sid |-> sid, txid |-> txid, factor |-> auth_method, _xsrf |-> xsrf,
     dampen_choice |-> TRUE]

Exit ==
    /\ pc = "exit"
    /\ Send("exit", ProviderUrl(duo_host, "/frame/v4/oidc/exit"), ExitPayload)
    /\ \/ /\ Catch("ConnectionError")
          /\ UNCHANGED got
       \/ \E st \in StatusCodes, doc \in ExitDocs :
            LET saml == extract_saml_response(doc)
            IN  /\ Recv("exit", [status |-> st, saml |-> saml])
                /\ IF IsRaise(saml) THEN Catch(saml.exc)
                   ELSE IF ~Truthy(saml)
                   THEN Return("False", "Failed to find SAML response", FALSE)
                   ELSE /\ Goto("saml_post")
                        /\ saml_response' = saml
                        /\ UNCHANGED <<csrf_token, relative_url, response_url>>
    /\ UNCHANGED <<clientVars, txnVars, argVars, calls, nStatus, answers, returned,
                   parserVars, scopeVars, derived>>
    /\ LoopLeft
    /\ passed' = IF pc' = "saml_post" THEN passed \cup {"exit"} ELSE passed

\* web_completion posting an empty form instead of the assertion
web_completion_empty(target, value) == Request("acs", target, [SAMLResponse |-> ""])

\* saml.web_completion(session, saml_url, saml_response)
web_completion(target, value) == Request("acs", target, [SAMLResponse |-> value])

SamlPost ==
    /\ pc = "saml_post"
    /\ sent' = [sent EXCEPT !["acs"] = web_completion(url \o saml_url, saml_response.val)]
    /\ \/ /\ Catch("ConnectionError")
          /\ UNCHANGED got
       \/ \E st \in StatusCodes :
            /\ Recv("acs", [status |-> st])
            /\ IF st # 200
               THEN Return("False", "SAML submission failed", FALSE)
               ELSE Return("True", msg, FALSE)
    /\ UNCHANGED <<clientVars, txnVars, argVars, pollVars, now, calls, nStatus,
                   answers, returned, parserVars, scopeVars, derived>>
    /\ passed' = IF result' = "True" THEN passed \cup {"acs"} ELSE passed

\* ----------------------------------------- set_service, access_service, get_session
\* set_service that also forgets the session id of the last login
set_service_forgets(u, s) ==
    /\ pc = "idle"
    /\ url' = u /\ saml_url' = s /\ sid' = None
    /\ returned' = [op |-> "set_service"]
    /\ escaped' = None
    /\ LoopLeft
    /\ UNCHANGED <<username, password, session, duo_host, tx, txid, xsrf, akey, pc,
                   argVars, localVars, calls, logVars, endVars,
                   passed, parserVars, block, closed, derived>>

\* escaped is the exception the last call on the client let out to its caller
set_service(u, s) ==
    /\ pc = "idle"
    /\ url' = u /\ saml_url' = s
    /\ returned' = [op |-> "set_service"]
    /\ escaped' = None
    /\ LoopLeft
    /\ UNCHANGED <<username, password, session, txnVars, pc, argVars, localVars,
                   calls, logVars, endVars, passed, parserVars,
                   block, closed, derived>>

\* session.get(self.url): the response is returned, or the exception the
\* transport raised leaves access_service and reaches the caller
access_service ==
    /\ pc = "idle"
    /\ \/ \E st \in StatusCodes :
            /\ returned' = [op |-> "access_service", status |-> st,
                            from |-> url, session |-> session]
            /\ escaped' = None
       \/ /\ returned' = [op |-> "access_service", status |-> 0,
                          from |-> url, session |-> session]
          /\ escaped' = Value("ConnectionError")
    /\ LoopLeft
    /\ UNCHANGED <<clientVars, txnVars, pc, argVars, localVars, calls,
                   logVars, endVars, passed, parserVars, block, closed,
                   derived>>

get_session ==
    /\ pc = "idle"
    /\ returned' = [op |-> "get_session", session |-> session]
    /\ escaped' = None
    /\ LoopLeft
    /\ UNCHANGED <<clientVars, txnVars, pc, argVars, localVars, calls,
                   logVars, endVars, passed, parserVars, block, closed, derived>>

\* ------------------------------------------------- __enter__, __exit__
\* __exit__ closing the session only when the block ended without exception
exit_on_success(exc_val) == [closed |-> exc_val = None, suppress |-> FALSE]

\* __exit__(exc_type, exc_val, exc_tb): the session is closed; the method
\* returns None, so the exception of the block is not suppressed
__exit__(exc_val) == [closed |-> TRUE, suppress |-> FALSE]

\* `with DuoClient(username, password) as client:` entering the block
enter ==
    /\ block = "before"
    /\ block' = "inside"
    /\ UNCHANGED <<clientVars, txnVars, pc, argVars, pollVars, localVars, now, calls,
                   logVars, endVars, returned, ghostVars, parserVars, closed, escaped,
                   derived>>

\* main.py: the block is left when authenticate returned False, when the
\* service was accessed after it returned True, or by an exception
BlockEnds ==
    \/ escaped # None
    \/ result = "False"
    \/ result = "True" /\ returned.op = "access_service"

leave ==
    /\ block = "inside" /\ pc = "idle" /\ BlockEnds
    /\ block' = "exited"
    /\ closed' = (closed \/ __exit__(escaped).closed)
    /\ escaped' = IF __exit__(escaped).suppress THEN None ELSE escaped
    /\ UNCHANGED <<clientVars, txnVars, pc, argVars, pollVars, localVars, now, calls,
                   logVars, endVars, returned, ghostVars, parserVars, derived>>

\* main.py: the service is configured, authenticate is called once, and the
\* service is accessed when authenticate returned True; an exception that
\* leaves a call leaves the block.  The clock is followed second by second
\* through the first MaxTimeout seconds of the poll loop.
AuthArgs ==
    {a \in AuthMethods \X Passcodes \X Devices :
        a[3] = "phone1" \/ (a[1] = "Duo Push" /\ a[2] = None)}

authenticate ==
    /\ block = "inside" /\ calls = 0
    /\ \E a \in AuthArgs : AuthCall(a[1], a[2], a[3])

configure ==
    /\ block = "inside" /\ calls = 0
    /\ \E t \in ServiceTargets : set_service(t.url, t.saml_url)

access == block = "inside" /\ result = "True" /\ escaped = None /\ access_service

Next ==
    \/ enter
    \/ authenticate
    \/ LoginGet \/ LoginPost \/ FrameInit
    \/ DuoAuth \/ Prompt
    \/ PollWhile \/ PollIf \/ PollSend \/ PollResp
    \/ Exit \/ SamlPost
    \/ configure \/ access
    \/ leave

Spec == Init /\ [][Next]_vars

\* ------------------------------------------- several attempts on one client
\* A caller that keeps the client and catches what its calls raise:
\* authenticate is called again after it returned, and between the calls,
\* before the first and after the last the service is set and accessed and
\* the session is asked for.  Every call is a Push with the default
\* arguments.
attempt ==
    /\ block = "inside" /\ calls < MaxCalls
    /\ AuthCall("Duo Push", None, "phone1")

reconfigure == block = "inside" /\ \E t \in ServiceTargets : set_service(t.url, t.saml_url)

use == block = "inside" /\ access_service

inspect == block = "inside" /\ get_session


RetryNext ==
    \/ enter
    \/ attempt
    \/ LoginGet \/ LoginPost \/ FrameInit
    \/ DuoAuth \/ Prompt
    \/ PollWhile \/ PollIf \/ PollSend \/ PollResp
    \/ Exit \/ SamlPost
    \/ reconfigure \/ use \/ inspect

RetrySpec == Init /\ [][RetryNext]_vars

\* --------------------------------------------- _poll_duo_status on its own
\* The state in which _duo_auth enters the loop, for every timeout argument
\* up to MaxTimeout, and up to MaxPolls status requests.
PollInit ==
    /\ username = "user" /\ password = "secret"
    /\ url = <<"https://acorn.utoronto.ca/">> /\ saml_url = <<"spACS">>
    /\ session = "session0"
    /\ sid = Value(<<"A">>) /\ duo_host = Value(<<"api-1", ".duosecurity.com">>)
    /\ tx = Value("v1") /\ xsrf = Value("v1") /\ akey = Value("v1")
    /\ txid = Value("txid1")
    /\ auth_method = "Duo Push" /\ passcode = None /\ device = "phone1"
    /\ timeout \in 0..MaxTimeout
    /\ pc = "poll_while" /\ now = 0 /\ start_time = 0 /\ last_poll = 0
    /\ csrf_token = None /\ relative_url = None
    /\ response_url = None /\ saml_response = None
    /\ calls = 1
    /\ sent = [k \in RequestKinds |-> NoReq]
    /\ got = [k \in RequestKinds |-> NoResp]
    /\ nStatus = 0 /\ answers = <<>>
    /\ result = "none" /\ msg = "Duo status: OK" /\ raised = FALSE
    /\ returned = NoReturn
    /\ passed = {"login", "prompt"}
    /\ html = <<>> /\ extracted = NoExtract
    /\ block = "inside" /\ closed = FALSE /\ escaped = None
    /\ derived = [f \in TxnFields |->
                    IF f = "sid" THEN <<sid>> ELSE IF f = "duo_host" THEN <<duo_host>>
                    ELSE IF f = "txid" THEN <<txid>> ELSE <<Value("v1")>>]

PollNext == PollWhile \/ PollIf \/ PollSend \/ PollResp

\* a reading of the loop that is later than the reading before it
Later == (PollWhile \/ PollIf \/ PollSend) /\ now' > now

PollSpec == PollInit /\ [][PollNext]_vars

\* the loop under a clock that is never set back: no reading is earlier
\* than the reading before it
Steady(A) == A /\ now' >= now

SteadyNext ==
    \/ Steady(PollWhile) \/ Steady(PollIf) \/ Steady(PollSend) \/ PollResp

SteadyPollSpec == PollInit /\ [][SteadyNext]_vars

\* the thread runs, the readings of the clock go on and every status request
\* is answered
FairPollSpec ==
    /\ SteadyPollSpec
    /\ WF_vars(Steady(PollWhile)) /\ WF_vars(Steady(PollIf))
    /\ WF_vars(Steady(PollSend)) /\ WF_vars(PollResp) /\ WF_vars(Later)

\* ------------------------------------------------ the extractors on their own
Docs == SeqsUpTo(Elements, MaxElems)

ParserInit ==
    /\ ClientInit /\ IdleInit
    /\ html \in Docs
    /\ extracted = NoExtract

Extract(fn, out) ==
    /\ extracted = NoExtract
    /\ extracted' = [fn |-> fn, out |-> out]
    /\ UNCHANGED <<clientVars, txnVars, pc, argVars, pollVars, localVars, now, calls,
                   logVars, endVars, returned, ghostVars, html, scopeVars, derived>>

ExtractCsrf == Extract("extract_csrf_and_action", extract_csrf_and_action(html))
ExtractDuo == Extract("extract_duo_tokens", extract_duo_tokens(html))
ExtractSaml == Extract("extract_saml_response", extract_saml_response(html))

ParserNext == ExtractCsrf \/ ExtractDuo \/ ExtractSaml

ParserSpec == ParserInit /\ [][ParserNext]_vars

\* =================================================================== claims
Called == calls > 0
Returned == pc = "idle" /\ Called
LoginKinds == {"entry", "cred", "frame"}
ProviderKinds == {"prompt", "status", "exit"}
Last(q) == q[Len(q)]

\* C1: authenticate returns a boolean whatever the endpoints do, and an
\* exception raised at any step of the call makes it return False.
Thm_C1 ==
    Returned => /\ result \in {"True", "False"}
                /\ raised => result = "False"

\* an exception raised by the assertion POST, the last step, ended the call
Wit_C1 == Returned /\ raised /\ result = "False" /\ sent["acs"] # NoReq

\* C2 as stated: a Passcode call without a passcode returns failure and
\* issues no HTTP request of any kind.
Claim_C2 ==
    (Returned /\ auth_method = "Passcode" /\ passcode \in {None, Value("")})
        => /\ result = "False"
           /\ \A k \in RequestKinds : sent[k] = NoReq

\* C2 amended: a Passcode call without a passcode returns failure and issues
\* no request to the provider and no assertion POST; the passcode is checked
\* after the initial login, whose requests have been issued by then.
Thm_C2 ==
    (Called /\ auth_method = "Passcode" /\ passcode \in {None, Value("")})
        => /\ \A k \in ProviderKinds \cup {"acs"} : sent[k] = NoReq
           /\ nStatus = 0
           /\ Returned => result = "False"
           /\ msg = "Passcode required for Passcode authentication method"
                 => \A k \in LoginKinds : sent[k] # NoReq

\* the empty passcode was refused after the three login requests
Wit_C2 ==
    /\ Returned /\ auth_method = "Passcode" /\ passcode = Value("")
    /\ msg = "Passcode required for Passcode authentication method"
    /\ sent["frame"] # NoReq /\ sent["prompt"] = NoReq

\* C3: requests are issued in order and only after the step before them
\* succeeded: the prompt after the initial login, a status poll after a
\* prompt answered 200 and "OK", the exit request after a poll answered
\* allow, the assertion POST after an assertion was extracted; a step that
\* failed is followed by no request of a later step.
Thm_C3 ==
    /\ sent["prompt"] # NoReq => "login" \in passed
    /\ (nStatus > 0 \/ sent["status"] # NoReq)
          => /\ "prompt" \in passed
             /\ got["prompt"] = [status |-> 200, stat |-> "OK"]
    /\ sent["exit"] # NoReq
          => "poll" \in passed /\ answers # <<>> /\ Last(answers) = "allow"
    /\ sent["acs"] # NoReq
          => /\ "exit" \in passed
             /\ Truthy(got["exit"].saml)
             /\ sent["acs"].data.SAMLResponse = got["exit"].saml.val
    /\ "login" \notin passed => \A k \in ProviderKinds \cup {"acs"} : sent[k] = NoReq
    /\ "prompt" \notin passed => nStatus = 0 /\ sent["exit"] = NoReq /\ sent["acs"] = NoReq
    /\ "poll" \notin passed => sent["exit"] = NoReq /\ sent["acs"] = NoReq
    /\ "exit" \notin passed => sent["acs"] = NoReq

\* a call that went through every step, and so issued every request
Wit_C3 ==
    /\ Returned /\ result = "True"
    /\ \A k \in LoginKinds \cup ProviderKinds \cup {"acs"} : sent[k] # NoReq

\* C4 as stated: a credential POST answered with a status other than 200
\* makes authenticate return False with no further request.
Claim_C4 ==
    (Called /\ got["cred"] # NoResp /\ got["cred"].status # 200)
        => /\ \A k \in {"frame"} \cup ProviderKinds \cup {"acs"} : sent[k] = NoReq
           /\ Returned => result = "False"

\* ---------------------------------------------------------- the poll loop
\* A status request is issued at the reading of the clock the loop keeps in
\* last_poll; the loop has ended when pc has left PollPcs, and now then is
\* the last reading the loop took.
Elapsed == now - start_time
Deadline == timeout * TicksPerSecond
PollEnded == pc \notin PollPcs
TimedOut == pc = "idle" /\ msg = "Duo authentication timed out"
AllPushed(q) == \A i \in 1..Len(q) : q[i] = "pushed"
Front(q) == SubSeq(q, 1, Len(q) - 1)

\* C5: answers of N times pushed and then allow make the loop issue exactly
\* N+1 status requests and return success; a first answer of deny makes it
\* return failure after exactly one status request.
Thm_C5 ==
    /\ (answers # <<>> /\ Last(answers) = "allow" /\ AllPushed(Front(answers)))
          => nStatus = Len(answers) /\ pc = "exit"
    /\ (answers # <<>> /\ answers[1] = "deny")
          => /\ Len(answers) = 1 /\ nStatus = 1
             /\ pc = "idle" /\ result = "False"

\* pushed twice and then allow: three status requests and success
Wit_C5 == answers = <<"pushed", "pushed", "allow">> /\ nStatus = 3 /\ pc = "exit"

\* C6 as stated: answered by pushed alone, the loop returns the timeout
\* failure between timeout and timeout+1 seconds after polling began.
Claim_C6 ==
    (TimedOut /\ AllPushed(answers))
        => Elapsed >= Deadline /\ Elapsed <= Deadline + TicksPerSecond

\* C6 amended: when the readings of the clock go on without being set back
\* and every status request is answered, the loop returns, and answered by
\* pushed alone it returns the timeout failure at a reading no earlier than
\* timeout seconds after polling began; nothing bounds the return by
\* timeout+1 seconds, since the deadline is tested only at the top of the
\* loop and a status request issued before it is waited for however late
\* its answer comes.
Thm_C6 ==
    /\ <>PollEnded
    /\ []((PollEnded /\ AllPushed(answers))
            => TimedOut /\ result = "False" /\ Elapsed >= Deadline)

\* the timeout failure after two polls that were both answered pushed
Wit_C6 == TimedOut /\ Len(answers) >= 2 /\ AllPushed(answers) /\ timeout >= 2

\* C7 as stated: once the timeout has elapsed without an allow or deny, the
\* loop ends in the timed-out failure; no allow that arrives after the
\* deadline makes the attempt succeed.
Claim_C7 ==
    /\ (PollEnded /\ Elapsed >= Deadline
          /\ \A i \in 1..Len(answers) :
                answers[i] \in {"allow", "deny", "pushed", "locked_out"})
          => TimedOut /\ result = "False"
    /\ (answers # <<>> /\ Last(answers) = "allow") => Elapsed < Deadline

\* C7 amended: when the loop test finds the timeout elapsed before an allow
\* or deny was received, the loop ends in the timed-out failure, which is
\* not the deny outcome; an allow or deny that answers a status request
\* issued after a loop test that passed is acted upon whenever it arrives,
\* also after the deadline.
Thm_C7 ==
    /\ [](TimedOut
            => /\ result = "False"
               /\ Elapsed >= Deadline
               /\ \A i \in 1..Len(answers) : answers[i] \notin {"allow", "deny"})
    /\ []((answers # <<>> /\ Last(answers) \in {"allow", "deny"})
            => /\ PollEnded /\ ~TimedOut
               /\ Last(answers) = "allow" => pc = "exit"
               /\ Last(answers) = "deny"
                     => /\ pc = "idle" /\ result = "False"
                        /\ msg = "Duo authentication denied!")
    /\ [][/\ pc' = "poll_wait" /\ pc # "poll_wait" => pc = "poll_send"
          /\ pc' = "poll_send" /\ pc # "poll_send" => pc = "poll_if"
          /\ pc' = "poll_if" /\ pc # "poll_if"
                => pc = "poll_while" /\ now' - start_time < Deadline]_vars

\* an allow that arrived after the deadline ended the loop in success
Wit_C7 ==
    /\ pc = "exit" /\ answers # <<>> /\ Last(answers) = "allow"
    /\ timeout >= 1 /\ Elapsed > Deadline

\* C8: under a clock that is never set back, two consecutive status
\* requests of one loop are issued at least one second apart, whatever
\* pushed and unrecognized codes are answered: a further request goes out at
\* a reading a second or more after the reading of the request before it.
Thm_C8 ==
    [][(nStatus >= 1 /\ nStatus' = nStatus + 1)
          => /\ pc = "poll_send"
             /\ last_poll' = now'
             /\ last_poll' - last_poll >= TicksPerSecond]_vars

\* a second status request went out after a pushed and a third after an
\* unrecognized code
Wit_C8 ==
    /\ pc = "poll_wait" /\ nStatus = 3 /\ answers = <<"pushed", "locked_out">>
    /\ last_poll - start_time >= 3 * TicksPerSecond

\* ------------------------------------------------------------- end to end
\* C9: login succeeded, Push accepted with "OK", polls answered pushed,
\* pushed, allow, an assertion in the exit response and 200 to the assertion
\* POST: authenticate returns True, the assertion posted is the one
\* extracted, and access_service then GETs the entry URL on the same session.
Thm_C9 ==
    (/\ Returned /\ auth_method = "Duo Push"
     /\ "login" \in passed
     /\ got["prompt"] = [status |-> 200, stat |-> "OK"]
     /\ answers = <<"pushed", "pushed", "allow">>
     /\ got["exit"] # NoResp
     /\ got["exit"].saml.kind = "value" /\ got["exit"].saml.val # ""
     /\ got["acs"] = [status |-> 200])
        => /\ result = "True"
           /\ sent["acs"].data.SAMLResponse = got["exit"].saml.val
           /\ sent["acs"].url = url \o saml_url
           /\ returned.op = "access_service"
                 => /\ returned.from = url
                    /\ returned.session = session
                    /\ returned.session = sent["acs"].session

\* the scenario ran to the end and the service was accessed
Wit_C9 ==
    /\ Returned /\ result = "True" /\ auth_method = "Duo Push"
    /\ answers = <<"pushed", "pushed", "allow">>
    /\ sent["acs"].data.SAMLResponse = "SAML123=="
    /\ returned.op = "access_service" /\ returned.status = 200

\* ---------------------------------------------------------- the extractors
HasValue(doc, n) ==
    \E i \in 1..Len(doc) :
        doc[i].tag = "input" /\ doc[i].name = n /\ doc[i].value # NoAttr
HasPostAction(doc) ==
    \E i \in 1..Len(doc) :
        doc[i].tag = "form" /\ doc[i].method = "post" /\ doc[i].action # NoAttr

RequiredAbsent(fn, doc) ==
    IF fn = "extract_csrf_and_action"
    THEN ~HasValue(doc, "csrf_token") \/ ~HasPostAction(doc)
    ELSE IF fn = "extract_duo_tokens"
    THEN \E n \in {"tx", "_xsrf", "akey"} : ~HasValue(doc, n)
    ELSE ~HasValue(doc, "SAMLResponse")

\* C10 as stated: on a document that lacks a required element or the
\* attribute read from it, the extractor returns None and does not raise.
Claim_C10 ==
    (extracted # NoExtract /\ RequiredAbsent(extracted.fn, html))
        => extracted.out = None

\* ---------------------------------------------------------- the with-block
\* C11: a client used through the with-block has its session closed on
\* every way out of the block: after a successful run, after authenticate
\* returned False, and when an exception was raised inside the block; that
\* exception is not suppressed and goes on to the caller of the block.
Thm_C11 ==
    /\ block = "exited"
          => /\ closed
             /\ BlockEnds
             /\ (returned.op = "access_service" /\ returned.status = 0)
                   => escaped = Value("ConnectionError")
    /\ closed => block = "exited"

\* the block was left by the exception access_service raised
Wit_C11 ==
    /\ block = "exited" /\ closed /\ result = "True"
    /\ escaped = Value("ConnectionError")

\* ------------------------------------------------------- several attempts
HostIn(req) == Value(SubSeq(req.url, 2, Len(req.url) - 1))
Carries(k, f, v) == sent[k] # NoReq => derived[f] = <<v>>

\* C12: in every attempt on a client, the attempts after a failed one
\* included, each of sid, provider host, tx, xsrf, akey and txid is assigned
\* at most once, and a request that carries one of them carries the value
\* read off a response of the same attempt, never one left by an earlier
\* attempt.
Thm_C12 ==
    /\ \A f \in TxnFields : Len(derived[f]) <= 1
    /\ Carries("frame", "tx", sent["frame"].data.tx)
    /\ Carries("frame", "xsrf", sent["frame"].data._xsrf)
    /\ Carries("frame", "akey", sent["frame"].data.akey)
    /\ sent["frame"] # NoReq
          => sent["frame"].data.tx = Value(Fresh(TokenValues, calls))
    /\ Carries("prompt", "sid", sent["prompt"].data.sid)
    /\ Carries("status", "sid", sent["status"].data.sid)
    /\ Carries("status", "txid", sent["status"].data.txid)
    /\ Carries("exit", "sid", sent["exit"].data.sid)
    /\ Carries("exit", "txid", sent["exit"].data.txid)
    /\ Carries("exit", "xsrf", sent["exit"].data._xsrf)
    /\ sent["exit"] # NoReq
          => sent["exit"].data.txid = Value(Fresh(TxidValues, calls))
    /\ \A k \in ProviderKinds : Carries(k, "duo_host", HostIn(sent[k]))

\* the second attempt has sent its prompt with the tokens of its own login
\* while txid still holds the value the first attempt left
Wit_C12 ==
    /\ calls = 2 /\ sent["prompt"] # NoReq
    /\ tx = Value("v2") /\ txid = Value("txid1")

\* ------------------------------------------------------ transport failures
NonSuccess(st) == st < 200 \/ st > 299

\* C13 as stated: a non-2xx response to the prompt, a status or the exit
\* request makes authenticate return False, and after a non-2xx exit
\* response no assertion POST is made, whatever the body holds.
Claim_C13 ==
    /\ \A k \in ProviderKinds :
          (got[k] # NoResp /\ NonSuccess(got[k].status) /\ Returned)
              => result = "False"
    /\ (got["exit"] # NoResp /\ NonSuccess(got["exit"].status))
          => sent["acs"] = NoReq

\* C14 as stated: in the initial login a non-200 entry GET, a missing
\* anti-forgery token or form action, a missing session id, a missing frame
\* token and a non-200 response to the frame-initialization POST each make
\* authenticate return False without a request to the provider.
Claim_C14 ==
    (\/ got["entry"] # NoResp /\ got["entry"].status # 200
     \/ msg \in {"Failed to find required form elements",
                 "Failed to extract session ID",
                 "Failed to find Duo frame parameters"}
     \/ got["frame"] # NoResp /\ got["frame"].status # 200)
        => /\ \A k \in ProviderKinds \cup {"acs"} : sent[k] = NoReq
           /\ Returned => result = "False"

\* ------------------------------------------------------ unrecognized codes
DecidingAnswers ==
    {"allow", "deny", "http error", "not json", "stat error", NoKey, "exception"}

\* C15: a status code other than allow, deny and pushed in a 200, "OK" poll
\* response does not end the loop: the loop goes back to its test, a status
\* request goes out only after the loop test read less than the timeout and
\* the cadence test read a second or more past the last request, as after
\* any other answer, and the loop ends only on an allow, a deny, a transport
\* or protocol error, or the timeout.
Thm_C15 ==
    [][/\ (answers' # answers /\ Last(answers') = "locked_out")
             => pc' = "poll_while" /\ result' = "none"
       /\ (pc = "poll_while" /\ pc' = "poll_if") => now' - start_time < Deadline
       /\ (pc = "poll_if" /\ pc' = "poll_send") => now' - last_poll >= TicksPerSecond
       /\ (pc = "poll_if" /\ pc' = "poll_while") => now' - last_poll < TicksPerSecond
       /\ nStatus' = nStatus + 1 => pc = "poll_send" /\ last_poll' = now'
       /\ (pc \in PollPcs /\ pc' \notin PollPcs)
             => \/ msg' = "Duo authentication timed out" /\ pc' = "idle"
                \/ answers' # answers /\ Last(answers') \in DecidingAnswers]_vars

\* an unrecognized code was polled past and the allow after it decided
Wit_C15 == answers = <<"locked_out", "allow">> /\ nStatus = 2 /\ pc = "exit"

\* ------------------------------------------------- session id and host
Holds(u, i, run) == i + Len(run) <= Len(u) /\ SubSeq(u, i + 1, i + Len(run)) = run
EndsAt(u, j) == j = Len(u) \/ u[j + 1] = "&"
HasDuoHost(u) == \E i \in 1..Len(u) : u[i] = ".duosecurity.com"

\* C16: after a login whose redirect URL holds sid=V, the session id kept
\* is V up to the next "&", the provider host is the duosecurity.com host
\* of that URL or, without one, the fallback host, and the prompt, status
\* and exit requests of the attempt go to that host with that session id.
Thm_C16 ==
    "login" \in passed =>
        LET u == got["cred"].url
        IN  /\ sid # None /\ Len(sid.val) >= 1
            /\ \A i \in 1..Len(sid.val) : sid.val[i] # "&"
            /\ \E i \in 1..Len(u) :
                  /\ u[i] = "sid=" /\ Holds(u, i, sid.val)
                  /\ EndsAt(u, i + Len(sid.val))
            /\ HasDuoHost(u)
                  => /\ Last(duo_host.val) = ".duosecurity.com"
                     /\ \E i \in 1..Len(u) :
                           u[i] = "https://" /\ Holds(u, i, duo_host.val)
            /\ ~HasDuoHost(u) => duo_host = Value(FallbackHost)
            /\ \A k \in ProviderKinds :
                  sent[k] # NoReq
                     => /\ HostIn(sent[k]) = duo_host
                        /\ sent[k].url[1] = "https://"
                        /\ sent[k].data.sid = sid
            /\ sent["prompt"] # NoReq => Last(sent["prompt"].url) = "/frame/v4/prompt"
            /\ sent["status"] # NoReq => Last(sent["status"].url) = "/frame/v4/status"
            /\ sent["exit"] # NoReq => Last(sent["exit"].url) = "/frame/v4/oidc/exit"

\* sid=A&v=4 on a duosecurity.com URL: the exit request went to that host
\* with the session id A
Wit_C16 ==
    /\ sent["exit"] # NoReq
    /\ sent["exit"].data.sid = Value(<<"A">>)
    /\ sent["exit"].url = <<"https://", "api-1", ".duosecurity.com", "/frame/v4/oidc/exit">>
    /\ sent["status"] # NoReq /\ sent["prompt"] # NoReq

\* ------------------------------------------------- the challenge payload
\* C17: the challenge payload has a passcode field exactly when the method
\* is Passcode, its device field is the caller's device for Push and the
\* null marker for any other method, its factor is the method asked for and
\* its session id the one captured at login.
Thm_C17 ==
    sent["prompt"] # NoReq =>
        LET data == sent["prompt"].data
        IN  /\ ("passcode" \in DOMAIN data) <=> (auth_method = "Passcode")
            /\ auth_method = "Passcode" => data.passcode = passcode
            /\ auth_method = "Duo Push" => data.device = Value(device)
            /\ auth_method # "Duo Push" => data.device = Value("null")
            /\ data.factor = auth_method
            /\ data.sid = sid /\ derived["sid"] = <<sid>>

\* a Push to the second device with no passcode field in the payload
Wit_C17 ==
    /\ sent["prompt"] # NoReq /\ auth_method = "Duo Push"
    /\ sent["prompt"].data.device = Value("phone2")
    /\ "passcode" \notin DOMAIN sent["prompt"].data

\* ------------------------------------------------------------- success
\* C18: authenticate returns True only when, in that call, a status poll was
\* answered allow with HTTP 200 and "OK" and the assertion POST after it
\* was answered 200; it never returns True after a deny, a timeout, a failed
\* poll or a missing assertion.
Thm_C18 ==
    (Returned /\ result = "True")
        => /\ answers # <<>> /\ Last(answers) = "allow"
           /\ nStatus = Len(answers)
           /\ got["status"] = [status |-> 200, stat |-> "OK"]
           /\ \A i \in 1..Len(answers) : answers[i] \in {"pushed", "locked_out", "allow"}
           /\ msg # "Duo authentication timed out" /\ ~raised
           /\ got["exit"] # NoResp /\ Truthy(got["exit"].saml)
           /\ sent["acs"] # NoReq /\ got["acs"] = [status |-> 200]

\* a Passcode call that returned True on the first poll
Wit_C18 ==
    /\ Returned /\ result = "True" /\ auth_method = "Passcode"
    /\ answers = <<"allow">> /\ got["acs"] = [status |-> 200]

\* --------------------------------------------------- the number of polls
\* C19 as stated: the first status request comes no earlier than a second
\* after the loop started, a loop issues at most timeout - 1 status
\* requests, and with a timeout of a second or less it issues none and ends
\* in the timeout failure.
Claim_C19 ==
    /\ (nStatus >= 1 /\ pc \in PollPcs) => last_poll - start_time >= TicksPerSecond
    /\ timeout >= 1 => nStatus <= timeout - 1
    /\ timeout <= 1 => nStatus = 0 /\ (PollEnded => TimedOut)

\* C19 amended: as long as the clock is not set back, the n-th status
\* request comes no earlier than n seconds after the loop started, a loop
\* issues at most timeout status requests, and with a timeout of 0 it issues
\* none and ends in the timeout failure; in any case a status request
\* follows a loop test that read less than timeout seconds.  The loop test
\* and the cadence test read the clock one after the other: a second
\* boundary between the two readings lets a request out that timeout - 1
\* leaves no room for.
Thm_C19 ==
    /\ []((nStatus >= 1 /\ pc \in PollPcs)
            => last_poll - start_time >= nStatus * TicksPerSecond)
    /\ [](nStatus <= timeout)
    /\ [](timeout = 0 => nStatus = 0 /\ (PollEnded => TimedOut))
    /\ [][/\ nStatus' = nStatus + 1 => pc = "poll_send"
          /\ pc' = "poll_send" /\ pc # "poll_send"
                => pc = "poll_if" /\ now' - last_poll >= TicksPerSecond
          /\ pc' = "poll_if" /\ pc # "poll_if"
                => pc = "poll_while" /\ now' - start_time < Deadline]_vars

\* with a timeout of one second the loop issued a status request
Wit_C19 ==
    /\ timeout = 1 /\ nStatus = 1 /\ pc = "poll_wait"
    /\ last_poll - start_time >= TicksPerSecond

\* ------------------------------------------------------- the service target
IdleStep(op) ==
    /\ pc = "idle" /\ pc' = "idle" /\ calls' = calls /\ block' = block
    /\ returned'.op = op

\* C20: set_service changes the entry URL and the assertion-consumer path
\* and nothing else of the client: the session, the credentials and the
\* six transaction fields stay; the assertion POST of a later authenticate
\* goes to the entry URL followed by the path in force when it is made; and
\* access_service and get_session change no field of the client.
Thm_C20 ==
    [][/\ IdleStep("set_service")
             => UNCHANGED <<username, password, session, txnVars>>
       /\ (IdleStep("access_service") \/ IdleStep("get_session"))
             => UNCHANGED <<clientVars, txnVars>>
       /\ (sent'["acs"] # sent["acs"] /\ sent'["acs"] # NoReq)
             => /\ sent'["acs"].url = url \o saml_url
                /\ UNCHANGED <<url, saml_url>>]_vars

\* the service was set on a client that holds the fields of an attempt
Wit_C20 ==
    /\ returned.op = "set_service" /\ calls = 1 /\ pc = "idle"
    /\ sid # None /\ txid # None
    /\ url = <<"https://bypass.utormfa.utoronto.ca/">>

====
